---- MODULE Spec2Model ----
(***************************************************************************)
(* A model of src/automated.py: the proxy rotator, the slot scanner, the   *)
(* booking steps and the run loop of DrivingTestBooker, with the response  *)
(* listener that can restart the session.                                  *)
(*                                                                         *)
(* Strings the code compares or parses (dates, times, confirmation text)   *)
(* are sequences of one-character strings, so that Python's string order,  *)
(* split(), int(), strptime() and lower() are computed, not assumed.       *)
(***************************************************************************)
EXTENDS Integers, Sequences, FiniteSets, TLC

VARIABLES
    current_index,       \* ProxyRotator.current_index
    last_rotation_time,  \* ProxyRotator.last_rotation_time
    now,                 \* the value time.time() returns
    rot_trace,           \* history: current_index at the last rotations
    ev,                  \* history: the operation the last step performed
    scan_criteria,       \* scanner harness: the criteria of the scan
    scan_listing,        \* scanner harness: the calendar the page lists
    scan_result,         \* scanner harness: what check_available_slots did
    browser,             \* self.browser: 0 is None, else the session's number
    context,             \* self.context
    page,                \* self.page
    logged_in,           \* self.logged_in
    login_page,          \* history: the page on which the last login succeeded
    live,                \* what Playwright started and has not closed
    nsess,               \* the number of setup_browser calls so far
    launched,            \* history: the proxy index each setup_browser launched with
    held,                \* the page the pending call of login was made on
    slot_page,           \* the page that self.page was when the slots were found
    form,                \* honeypot harness: the inputs of the login form
    flagged,             \* honeypot harness: the inputs the scan flagged
    written,             \* honeypot harness: the inputs typed into
    lg,                  \* login harness: what the call of login has done
    fingerprint,         \* fingerprint harness: what generate() returned
    context_options,     \* fingerprint harness: the options new_context got
    pc,                  \* where run() is
    hpc,                 \* where the response listener's task is
    hpc2,                \* where a second task of the response listener is
    cycle,               \* the number of the monitoring cycle
    ci,                  \* run_monitoring_cycle: index of the loop's test centre
    scanned,             \* history: the test centres scanned in this cycle
    site,                \* what the site lists at each test centre, this cycle
    available_slots,     \* run_monitoring_cycle: available_slots, sorted
    booked,              \* history: the book_slot calls of this cycle
    confirmed,           \* history: how many claims showed a matching confirmation
    notified             \* history: how many times notify_success was called

(***************************************************************************)
(* Python strings                                                          *)
(***************************************************************************)
\* None where a string is expected (a missing attribute, no text).
None == <<"None">>

\* The characters of date and time strings, in code point order.
CodePoints == <<"-", "0", "1", "2", "3", "4", "5", "6", "7", "8", "9", ":">>

Ord(c) == CHOOSE i \in 1..Len(CodePoints) : CodePoints[i] = c

Digits == {"0", "1", "2", "3", "4", "5", "6", "7", "8", "9"}

\* str < str: lexicographic on code points, a proper prefix is smaller.
RECURSIVE StrLess(_, _)
StrLess(a, b) ==
    IF b = <<>> THEN FALSE
    ELSE IF a = <<>> THEN TRUE
    ELSE IF Head(a) # Head(b) THEN Ord(Head(a)) < Ord(Head(b))
    ELSE StrLess(Tail(a), Tail(b))

\* str.split(sep) for a one-character separator.
RECURSIVE SplitFrom(_, _, _)
SplitFrom(s, sep, cur) ==
    IF s = <<>> THEN <<cur>>
    ELSE IF Head(s) = sep THEN <<cur>> \o SplitFrom(Tail(s), sep, <<>>)
    ELSE SplitFrom(Tail(s), sep, Append(cur, Head(s)))

Split(s, sep) == SplitFrom(s, sep, <<>>)

IsDigits(s) == s # <<>> /\ \A i \in 1..Len(s) : s[i] \in Digits

DigitValue(c) == Ord(c) - 2

RECURSIVE DigitsValue(_, _)
DigitsValue(s, acc) ==
    IF s = <<>> THEN acc ELSE DigitsValue(Tail(s), acc * 10 + DigitValue(Head(s)))

\* int(s) for the strings of the model: decimal digits, else ValueError.
IntOk(s) == IsDigits(s)
ParseInt(s) == DigitsValue(s, 0)

(***************************************************************************)
(* datetime                                                                *)
(***************************************************************************)
IsLeap(y) == y % 4 = 0 /\ (y % 100 # 0 \/ y % 400 = 0)

DaysInMonth(y, m) ==
    IF m = 2 THEN (IF IsLeap(y) THEN 29 ELSE 28)
    ELSE IF m \in {4, 6, 9, 11} THEN 30 ELSE 31

RECURSIVE DaysBeforeMonth(_, _)
DaysBeforeMonth(y, m) ==
    IF m = 1 THEN 0 ELSE DaysBeforeMonth(y, m - 1) + DaysInMonth(y, m - 1)

DaysBeforeYear(y) ==
    (y - 1) * 365 + ((y - 1) \div 4) - ((y - 1) \div 100) + ((y - 1) \div 400)

\* datetime.toordinal()
Ordinal(d) == DaysBeforeYear(d.y) + DaysBeforeMonth(d.y, d.m) + d.d

\* datetime.weekday(): 0 = Monday .. 6 = Sunday
Weekday(d) == (Ordinal(d) + 6) % 7

\* datetime.strptime(s, "%Y-%m-%d"): four digits, then one or two digits for
\* the month and for the day, a real calendar date; else ValueError.
StrptimeOk(s) ==
    LET p == Split(s, "-") IN
    /\ Len(p) = 3
    /\ IsDigits(p[1]) /\ Len(p[1]) = 4
    /\ IsDigits(p[2]) /\ Len(p[2]) \in {1, 2}
    /\ IsDigits(p[3]) /\ Len(p[3]) \in {1, 2}
    /\ ParseInt(p[2]) \in 1..12
    /\ ParseInt(p[1]) >= 1
    /\ ParseInt(p[3]) \in 1..DaysInMonth(ParseInt(p[1]), ParseInt(p[2]))

Strptime(s) ==
    LET p == Split(s, "-") IN [y |-> ParseInt(p[1]), m |-> ParseInt(p[2]), d |-> ParseInt(p[3])]

(***************************************************************************)
(* ProxyRotator                                                            *)
(***************************************************************************)
\* config.proxies: the rotation pool, each endpoint with its interval.
proxies == << [host |-> "p0", rotation_interval |-> 1],
              [host |-> "p1", rotation_interval |-> 2],
              [host |-> "p2", rotation_interval |-> 1] >>

MaxTime == 1

get_current_proxy == proxies[current_index + 1]

RotationDue_Strict(elapsed_time, rotation_interval) ==
    elapsed_time > rotation_interval

RotationDue(elapsed_time, rotation_interval) ==
    elapsed_time >= rotation_interval

NextIndex_SkipLast(index, n) ==
    IF index + 1 >= n - 1 THEN 0 ELSE index + 1

NextIndex(index, n) == (index + 1) % n

\* The last Len(proxies) + 1 values of current_index, one per rotation.
Remember(trace, index) ==
    LET t == Append(trace, index) IN
    IF Len(t) > Len(proxies) + 1 THEN Tail(t) ELSE t

rotate ==
    /\ current_index' = NextIndex(current_index, Len(proxies))
    /\ last_rotation_time' = now
    /\ rot_trace' = Remember(rot_trace, current_index')

rotate_if_needed(ret) ==
    IF RotationDue(now - last_rotation_time, get_current_proxy.rotation_interval)
    THEN rotate /\ ret = TRUE
    ELSE UNCHANGED <<current_index, last_rotation_time, rot_trace>> /\ ret = FALSE

rotVars == <<current_index, last_rotation_time, rot_trace>>

NotScanned == [done |-> FALSE, err |-> FALSE, slots |-> <<>>, clicked |-> <<>>]

(***************************************************************************)
(* check_available_slots: the calendar scan and its three filters          *)
(***************************************************************************)
\* The strings the model's pages and configuration use.
D_0603  == <<"2", "0", "2", "4", "-", "0", "6", "-", "0", "3">>  \* a Monday
D_0604  == <<"2", "0", "2", "4", "-", "0", "6", "-", "0", "4">>  \* a Tuesday
D_0605  == <<"2", "0", "2", "4", "-", "0", "6", "-", "0", "5">>  \* a Wednesday
D_0701  == <<"2", "0", "2", "4", "-", "0", "7", "-", "0", "1">>  \* a Monday
D_63    == <<"2", "0", "2", "4", "-", "6", "-", "3">>            \* 06-03 unpadded
D_1301  == <<"2", "0", "2", "4", "-", "1", "3", "-", "0", "1">>  \* no such month
T_0859  == <<"0", "8", ":", "5", "9">>
T_0900  == <<"0", "9", ":", "0", "0">>
T_0930  == <<"0", "9", ":", "3", "0">>
T_930   == <<"9", ":", "3", "0">>
T_1000  == <<"1", "0", ":", "0", "0">>
T_1200  == <<"1", "2", ":", "0", "0">>
T_1201  == <<"1", "2", ":", "0", "1">>
T_bad   == <<"0", "9", "3", "0">>                                \* no colon

\* hour, minute = map(int, time_str.split(":")): exactly two integers.
TimeOk(s) ==
    LET p == Split(s, ":") IN Len(p) = 2 /\ IntOk(p[1]) /\ IntOk(p[2])

\* time_value = hour * 60 + minute
TimeValue(s) ==
    LET p == Split(s, ":") IN ParseInt(p[1]) * 60 + ParseInt(p[2])

DateInRange_EndExclusive(slot_date, criteria) ==
    ~ (Ordinal(slot_date) < Ordinal(criteria.start_date)
       \/ Ordinal(slot_date) >= Ordinal(criteria.end_date))

\* not (slot_date < start_date or slot_date > end_date)
DateInRange(slot_date, criteria) ==
    ~ (Ordinal(slot_date) < Ordinal(criteria.start_date)
       \/ Ordinal(slot_date) > Ordinal(criteria.end_date))

PreferredDay(slot_date, criteria) ==
    Weekday(slot_date) \in criteria.preferred_days

TimeInWindow(time_str, criteria) ==
    /\ TimeValue(criteria.earliest) <= TimeValue(time_str)
    /\ TimeValue(time_str) <= TimeValue(criteria.latest)

Slot(test_center, date_str, time_str) ==
    [test_center |-> test_center, date |-> date_str, time |-> time_str]

\* The loop over the time elements of one expanded date. err: an exception
\* left the loop (a time string int() or the unpacking rejects).
RECURSIVE ScanTimes(_, _, _, _)
ScanTimes(test_center, date_str, times, criteria) ==
    IF times = <<>> THEN [err |-> FALSE, slots |-> <<>>]
    ELSE
        LET time_str == Head(times)
            rest == ScanTimes(test_center, date_str, Tail(times), criteria)
        IN  IF time_str = None \/ time_str = <<>> THEN rest
            ELSE IF ~ TimeOk(time_str) THEN [err |-> TRUE, slots |-> <<>>]
            ELSE IF rest.err THEN rest
            ELSE IF TimeInWindow(time_str, criteria)
                 THEN [err |-> FALSE,
                       slots |-> <<Slot(test_center, date_str, time_str)>> \o rest.slots]
                 ELSE rest

\* Whether the loop reaches the click that expands a date element.
DateClicked(e, criteria) ==
    /\ e.date # None /\ e.date # <<>>
    /\ StrptimeOk(e.date)
    /\ DateInRange(Strptime(e.date), criteria)
    /\ PreferredDay(Strptime(e.date), criteria)

\* The loop over the date elements the selector returns.
RECURSIVE ScanDates(_, _, _)
ScanDates(test_center, elements, criteria) ==
    IF elements = <<>> THEN [err |-> FALSE, slots |-> <<>>]
    ELSE
        LET e == Head(elements)
            rest == ScanDates(test_center, Tail(elements), criteria)
        IN  IF ~ DateClicked(e, criteria) THEN rest
            ELSE IF ~ e.click_ok THEN [err |-> TRUE, slots |-> <<>>]
            ELSE IF ~ e.panel THEN rest
            ELSE
                LET here == ScanTimes(test_center, e.date, e.times, criteria) IN
                IF here.err THEN here
                ELSE IF rest.err THEN rest
                ELSE [err |-> FALSE, slots |-> here.slots \o rest.slots]

\* ".SlotPicker-days .SlotPicker-day:not(.is-disabled)"
NotDisabled(listing) == SelectSeq(listing, LAMBDA e : ~ e.disabled)

\* The element a click on ".SlotPicker-day[data-date='...']" goes to: the
\* first element of the page with that date, disabled or not.
ClickTarget(listing, date_str) ==
    CHOOSE i \in 1..Len(listing) :
        /\ listing[i].date = date_str
        /\ \A j \in 1..(i - 1) : listing[j].date # date_str

\* The elements the loop over the date elements clicks, in order, as
\* positions in the page, up to the exception that ends the loop, if any.
RECURSIVE ClicksOf(_, _, _)
ClicksOf(listing, positions, criteria) ==
    IF positions = <<>> THEN <<>>
    ELSE
        LET e == listing[Head(positions)]
            rest == ClicksOf(listing, Tail(positions), criteria)
        IN  IF ~ DateClicked(e, criteria) THEN rest
            ELSE IF ~ e.click_ok THEN <<>>
            ELSE IF e.panel /\ ScanTimes("A", e.date, e.times, criteria).err
                 THEN <<ClickTarget(listing, e.date)>>
            ELSE <<ClickTarget(listing, e.date)>> \o rest

\* The positions of the elements the selector with ":not(.is-disabled)"
\* returns.
NotDisabledAt(listing) ==
    SelectSeq([i \in 1..Len(listing) |-> i], LAMBDA i : ~ listing[i].disabled)

clicked_dates(listing, criteria) == ClicksOf(listing, NotDisabledAt(listing), criteria)

\* check_available_slots after a successful search: the list it returns, and
\* whether it got there through its except branch.
check_available_slots(test_center, listing, criteria) ==
    LET r == ScanDates(test_center, NotDisabled(listing), criteria) IN
    [err |-> r.err, slots |-> IF r.err THEN <<>> ELSE r.slots]

(***************************************************************************)
(* Configuration of the run                                                *)
(***************************************************************************)
Day(y, m, d) == [y |-> y, m |-> m, d |-> d]

\* date_range, preferred_days and time_preference of the configuration.
CriteriaJune ==
    [start_date |-> Day(2024, 6, 1), end_date |-> Day(2024, 6, 30),
     preferred_days |-> {0, 2}, earliest |-> T_0900, latest |-> T_1200]

\* config.test_centers, in the configured order.
test_centers == <<"A", "B">>

\* config.notification: both channels switched on.
notification == [email_enabled |-> TRUE, sms_enabled |-> TRUE]

\* config.check_interval
check_interval == <<1, 2>>

Entry(date_str, times) ==
    [date |-> date_str, disabled |-> FALSE, click_ok |-> TRUE, panel |-> TRUE,
     times |-> times]

(***************************************************************************)
(* run_monitoring_cycle: the choice of the slot to claim                   *)
(***************************************************************************)
\* The order of the sort key (x['date'], x['time']): a tuple of two strings.
KeyLess(x, y) ==
    StrLess(x.date, y.date) \/ (x.date = y.date /\ StrLess(x.time, y.time))

\* list.sort is stable: an element goes after those whose key is not greater.
RECURSIVE InsertByKey(_, _)
InsertByKey(x, sorted) ==
    IF sorted = <<>> THEN <<x>>
    ELSE IF KeyLess(x, Head(sorted)) THEN <<x>> \o sorted
    ELSE <<Head(sorted)>> \o InsertByKey(x, Tail(sorted))

RECURSIVE SortByKey(_)
SortByKey(slots) ==
    IF slots = <<>> THEN <<>>
    ELSE InsertByKey(slots[Len(slots)], SortByKey(SubSeq(slots, 1, Len(slots) - 1)))

SortSlots_Unsorted(slots) == slots

\* available_slots.sort(key=lambda x: (x['date'], x['time']))
SortSlots(slots) == SortByKey(slots)

NextCentre_Retry(index, success) == index

NextCentre_Skip(index, success) == index + 2

\* The for loop goes on to the next test centre, also after a failed claim.
NextCentre(index, success) == index + 1

(***************************************************************************)
(* Notifier and book_slot                                                  *)
(***************************************************************************)
UpperCase == <<"A", "B", "C", "D", "E", "F", "G", "H", "I", "J", "K", "L", "M",
               "N", "O", "P", "Q", "R", "S", "T", "U", "V", "W", "X", "Y", "Z">>
LowerCase == <<"a", "b", "c", "d", "e", "f", "g", "h", "i", "j", "k", "l", "m",
               "n", "o", "p", "q", "r", "s", "t", "u", "v", "w", "x", "y", "z">>

LowerChar(c) ==
    IF \E i \in 1..Len(UpperCase) : UpperCase[i] = c
    THEN LowerCase[CHOOSE i \in 1..Len(UpperCase) : UpperCase[i] = c]
    ELSE c

\* str.lower()
Lower(text) == [i \in 1..Len(text) |-> LowerChar(text[i])]

\* word in text
Contains(text, word) ==
    \E i \in 0..(Len(text) - Len(word)) : SubSeq(text, i + 1, i + Len(word)) = word

W_confirmed == <<"c", "o", "n", "f", "i", "r", "m", "e", "d">>
W_booked    == <<"b", "o", "o", "k", "e", "d">>
W_book      == <<"b", "o", "o", "k">>

\* The texts a confirmation block shows in the model.
X_Confirmed == <<"C", "o", "n", "f", "i", "r", "m", "e", "d", "!">>
X_BOOKED    == <<"B", "O", "O", "K", "E", "D">>
X_Rebook    == <<"R", "e", "b", "o", "o", "k">>
Texts == {X_Confirmed, X_BOOKED, X_Rebook, None}

KeywordMatch_Loose(confirmation_text) ==
    \/ Contains(Lower(confirmation_text), W_confirmed)
    \/ Contains(Lower(confirmation_text), W_book)

\* "confirmed" in confirmation_text.lower() or "booked" in confirmation_text.lower()
KeywordMatch(confirmation_text) ==
    \/ Contains(Lower(confirmation_text), W_confirmed)
    \/ Contains(Lower(confirmation_text), W_booked)

send_notification_NoCatch(enabled, fails) ==
    [raised |-> enabled /\ fails, ret |-> enabled /\ ~ fails]

\* send_email_notification, send_sms_notification: a channel that is off
\* returns False; an error of the transport is caught and returns False.
send_notification(enabled, fails) ==
    [raised |-> FALSE, ret |-> enabled /\ ~ fails]

\* notify_success: raises only if a send does.
notify_success(email_fails, sms_fails) ==
    LET email == IF notification.email_enabled
                 THEN send_notification(TRUE, email_fails)
                 ELSE [raised |-> FALSE, ret |-> FALSE]
        sms == IF email.raised \/ ~ notification.sms_enabled
               THEN [raised |-> FALSE, ret |-> FALSE]
               ELSE send_notification(TRUE, sms_fails)
    IN  [raised |-> email.raised \/ sms.raised]

NotifyArgs_Swapped(slot) ==
    [test_center |-> slot.test_center, test_date |-> slot.time, test_time |-> slot.date]

\* The keyword arguments book_slot passes to notify_success.
NotifyArgs(slot) ==
    [test_center |-> slot.test_center, test_date |-> slot.date, test_time |-> slot.time]

\* book_slot from the wait for ".confirmation-block" on. The inner except
\* turns every exception of these steps into the result False.
\*   outcome: what the confirmation surface showed
\*   called:  whether notify_success was called
\*   ret:     what book_slot returns
book_confirm(surface, text, email_fails, sms_fails, shot_raises) ==
    IF ~ surface THEN
        [outcome |-> "Indeterminate", called |-> FALSE, ret |-> FALSE]
    ELSE IF text = None THEN
        [outcome |-> "Indeterminate", called |-> FALSE, ret |-> FALSE]
    ELSE IF KeywordMatch(text) THEN
        [outcome |-> "Confirmed", called |-> TRUE,
         ret |-> ~ notify_success(email_fails, sms_fails).raised /\ ~ shot_raises]
    ELSE
        [outcome |-> "Rejected", called |-> FALSE, ret |-> FALSE]

RestartWanted_Always(rotated) == TRUE

\* handle_response restarts the session only if rotate_if_needed rotated.
RestartWanted(rotated) == rotated

(***************************************************************************)
(* The site: what each test centre lists during one cycle                  *)
(***************************************************************************)
\* A lists (06-03, 10:00) and (06-05, 09:30); B lists (06-03, 09:00).
SiteTwoCentres ==
    [A |-> <<Entry(D_0603, <<T_1000>>), Entry(D_0605, <<T_0930>>)>>,
     B |-> <<Entry(D_0603, <<T_0900>>)>>]

\* A lists its dates and times out of order; B lists nothing.
SiteOutOfOrder ==
    [A |-> <<Entry(D_0605, <<T_0930>>), Entry(D_0603, <<T_1000, T_0900>>)>>,
     B |-> <<>>]

\* Both list the same date and time.
SiteTie ==
    [A |-> <<Entry(D_0603, <<T_0900>>)>>, B |-> <<Entry(D_0603, <<T_0900>>)>>]

\* Nothing that passes the filters: a Tuesday, and a time after the window.
SiteNothing ==
    [A |-> <<Entry(D_0604, <<T_0930>>)>>, B |-> <<Entry(D_0603, <<T_1201>>)>>]

\* A lists two times of one date, one with a single-digit hour.
SiteUnpadded ==
    [A |-> <<Entry(D_0603, <<T_930, T_1000>>)>>, B |-> <<>>]

\* The variable site names one of these.
SiteSet == {"TwoCentres", "OutOfOrder", "Tie", "Unpadded", "Nothing"}

Listing(name, test_center) ==
    LET s == CASE name = "TwoCentres" -> SiteTwoCentres
               [] name = "OutOfOrder" -> SiteOutOfOrder
               [] name = "Tie" -> SiteTie
               [] name = "Unpadded" -> SiteUnpadded
               [] OTHER -> SiteNothing
    IN  s[test_center]

\* What check_available_slots returns at each test centre for each site, and
\* the cycle's sort of it: the calls of run_monitoring_cycle, computed once.
SiteScan ==
    [s \in SiteSet |->
        [c \in {test_centers[i] : i \in 1..Len(test_centers)} |->
            LET r == check_available_slots(c, Listing(s, c), CriteriaJune)
            IN  [err |-> r.err, slots |-> r.slots, sorted |-> SortSlots(r.slots)]]]

Statuses == {200, 403, 429}

MaxCycles == 2

(***************************************************************************)
(* DrivingTestBooker.run and what it calls                                 *)
(***************************************************************************)
\* The login harness before login is called, and outside that harness.
\*   steps: the steps of login that are done, in order
\*   cf:    what the calls of handle_cf_challenge returned
\*   cause: the step that failed
\*   ret:   what login returned, or that it raised
NoLogin == [steps |-> <<>>, cf |-> <<>>, ret |-> "none", cause |-> "none"]

\* The fingerprint and the context options before setup_browser made them.
Unset == [unset |-> TRUE]

scanVars == <<scan_criteria, scan_listing, scan_result>>
honeyVars == <<form, flagged, written>>
fpVars == <<fingerprint, context_options>>
harnVars == <<scanVars, honeyVars, lg, fpVars>>
sessVars == <<browser, context, page, live, nsess, launched>>
authVars == <<logged_in, login_page>>
cycVars  == <<cycle, scanned, ci, site, available_slots, slot_page>>
histVars == <<booked, confirmed, notified>>

vars == <<current_index, last_rotation_time, now, rot_trace, ev,
          scan_criteria, scan_listing, scan_result, form, flagged, written, lg,
          fingerprint, context_options,
          browser, context, page, logged_in, login_page, live, nsess, launched,
          pc, hpc, hpc2, held, cycle, scanned, ci, site, available_slots, slot_page,
          booked, confirmed, notified>>

\* What Playwright has started and not closed: <<kind, n>>, n the number of
\* the setup_browser call that made it.
Driver(n) == <<"driver", n>>
Handle(kind, n) == <<kind, n>>
Open(kind, n) == Handle(kind, n) \in live

\* page.close(), context.close() and browser.close(): what they close.
ClosePage(n) == live \ {Handle("page", n)}
CloseContext(n) == live \ {Handle("context", n), Handle("page", n)}
CloseBrowser(n) == live \ {Handle("browser", n), Handle("context", n), Handle("page", n)}

Init ==
    /\ current_index = 0 /\ last_rotation_time = 0 /\ now = 0 /\ rot_trace = <<0>>
    /\ ev = [op |-> "init"]
    /\ scan_criteria = CriteriaJune /\ scan_listing = <<>> /\ scan_result = NotScanned
    /\ form = <<>> /\ flagged = {} /\ written = {} /\ lg = NoLogin
    /\ fingerprint = Unset /\ context_options = Unset
    /\ browser = 0 /\ context = 0 /\ page = 0
    /\ logged_in = FALSE /\ login_page = 0
    /\ live = {} /\ nsess = 0 /\ launched = <<>>
    /\ pc = "setup" /\ hpc = "idle" /\ hpc2 = "off" /\ held = 0
    /\ cycle = 1 /\ scanned = <<>> /\ ci = 1 /\ site = "Nothing" /\ available_slots = <<>>
    /\ slot_page = 0
    /\ booked = <<>> /\ confirmed = 0 /\ notified = 0

\* setup_browser, called by run: async_playwright().start(), launch,
\* new_context, new_page. An exception of one of the last three leaves what
\* was started and assigned before it, and ends run through its finally block.
SetupBrowser ==
    /\ pc = "setup"
    /\ \E outcome \in {"ok", "launch_fails", "context_fails", "page_fails"} :
          LET n == nsess + 1 IN
          /\ nsess' = n
          /\ launched' = Append(launched, current_index)
          /\ browser' = IF outcome = "launch_fails" THEN browser ELSE n
          /\ context' = IF outcome \in {"launch_fails", "context_fails"} THEN context ELSE n
          /\ page' = IF outcome = "ok" THEN n ELSE page
          /\ live' = live \cup {Driver(n)}
                       \cup (IF outcome = "launch_fails" THEN {} ELSE {Handle("browser", n)})
                       \cup (IF outcome \in {"launch_fails", "context_fails"}
                             THEN {} ELSE {Handle("context", n)})
                       \cup (IF outcome = "ok" THEN {Handle("page", n)} ELSE {})
          /\ pc' = IF outcome = "ok" THEN "cycle" ELSE "td_page"
          /\ ev' = [op |-> "setup_browser", outcome |-> outcome]
    /\ UNCHANGED <<rotVars, now, harnVars, authVars, hpc, hpc2, held, cycVars, histVars>>

\* run_monitoring_cycle, to its first await. The site's listings of the
\* cycle are chosen here.
StartCycle ==
    /\ pc = "cycle"
    /\ site' \in SiteSet
    /\ booked' = <<>>
    /\ available_slots' = <<>> /\ slot_page' = 0
    /\ ci' = 1 /\ scanned' = <<>>
    /\ pc' = IF logged_in THEN "centre" ELSE "login"
    /\ ev' = [op |-> "run_monitoring_cycle"]
    /\ UNCHANGED <<rotVars, now, harnVars, sessVars, authVars, hpc, hpc2, held, cycle,
                   confirmed, notified>>

\* login, up to the click that submits the form and the call of
\* wait_for_selector on self.page. An exception (navigation, challenge,
\* typing, puzzle solving, a closed page) makes login return False, and so
\* does one of the screenshot in its handler, through the cycle's handler.
LoginSubmit ==
    /\ pc = "login"
    /\ \E outcome \in {"ok", "raise"} :
          /\ outcome = "ok" => Open("page", page)
          /\ pc' = IF outcome = "ok" THEN "login_wait" ELSE "sleep"
          /\ held' = IF outcome = "ok" THEN page ELSE 0
          /\ site' = IF outcome = "ok" THEN site ELSE "Nothing"
          /\ ev' = [op |-> "login", stage |-> "submit", outcome |-> outcome]
    /\ UNCHANGED <<rotVars, now, harnVars, sessVars, authVars, hpc, hpc2, cycle, scanned, ci,
                   available_slots, slot_page, histVars>>

\* login: the wait for "#find-test-centres, .error-summary" ends, on the page
\* it was called on, and the query for ".error-summary" is called on
\* self.page.
LoginResult ==
    /\ pc = "login_wait"
    /\ \E outcome \in {"found", "timeout"} :
          /\ outcome = "found" => Open("page", held)
          /\ pc' = IF outcome = "found" THEN "login_query" ELSE "sleep"
          /\ held' = IF outcome = "found" THEN page ELSE 0
          /\ site' = IF outcome = "found" THEN site ELSE "Nothing"
          /\ ev' = [op |-> "login", stage |-> "result", outcome |-> outcome]
    /\ UNCHANGED <<rotVars, now, harnVars, sessVars, authVars, hpc, hpc2, cycle, scanned, ci,
                   available_slots, slot_page, histVars>>

\* login: the query ends, on the page it was called on; with no error
\* surface, self.logged_in = True.
LoginQuery ==
    /\ pc = "login_query"
    /\ \E outcome \in {"ready", "error_surface", "raise"} :
          /\ outcome # "raise" => Open("page", held)
          /\ logged_in' = IF outcome = "ready" THEN TRUE ELSE logged_in
          /\ login_page' = IF outcome = "ready" THEN held ELSE login_page
          /\ pc' = IF outcome = "ready" THEN "centre" ELSE "sleep"
          /\ site' = IF outcome = "ready" THEN site ELSE "Nothing"
          /\ ev' = [op |-> "login", stage |-> "query", outcome |-> outcome,
                    page |-> held]
    /\ held' = 0
    /\ UNCHANGED <<rotVars, now, harnVars, sessVars, hpc, hpc2, cycle, scanned, ci, available_slots,
                   slot_page, histVars>>

\* The head of "for test_center in self.config.test_centers", with the call
\* of rotate_if_needed whose result the loop drops.
CentreLoop ==
    /\ pc = "centre"
    /\ \E ret \in BOOLEAN :
          /\ rotate_if_needed(ret)
          /\ ev' = [op |-> "centre", rotated |-> ret]
    /\ pc' = "scan"
    /\ UNCHANGED <<now, harnVars, sessVars, authVars, hpc, hpc2, held, cycVars, histVars>>

\* The end of an iteration that did not return: random_delay(3, 8), then the
\* next test centre, or the end of the cycle with the result False.
\* When the cycle returns, its locals are gone (ci, available_slots).
Advance(success) ==
    LET next == NextCentre(ci, success) IN
    /\ ci' = IF next > Len(test_centers) THEN 1 ELSE next
    /\ pc' = IF next > Len(test_centers) THEN "sleep" ELSE "centre"
    /\ site' = IF next > Len(test_centers) THEN "Nothing" ELSE site

\* The cycle returns False from where it is.
EndCycle == pc' = "sleep" /\ ci' = 1 /\ site' = "Nothing"

\* "if available_slots:"
HasSlots_Always(slots) == TRUE

HasSlots(slots) == slots # <<>>

\* check_available_slots for the loop's test centre, and the sort of what
\* it returns.
\*   not_found: search_test_center returned False
\*   raise:     a surface of the search or of the calendar is missing, or
\*              the page is closed
\* shot_raises: the screenshot in the handler raises, and the exception ends
\* the cycle through its own handler.
\* A search that gets to its results has logged in on the way, if the
\* session was not logged in (navigate_to_test_search).
ScanCentre ==
    /\ pc = "scan"
    /\ \E outcome \in {"ok", "not_found", "raise"}, shot_raises \in BOOLEAN :
          LET name == test_centers[ci]
              r == IF outcome = "ok"
                   THEN SiteScan[site][name]
                   ELSE [err |-> outcome = "raise", slots |-> <<>>, sorted |-> <<>>]
          IN  /\ outcome # "raise" => Open("page", page)
              /\ shot_raises => r.err
              /\ logged_in' = (logged_in \/ outcome # "raise")
              /\ login_page' = IF ~ logged_in /\ outcome # "raise" THEN page
                               ELSE login_page
              /\ scanned' = Append(scanned, name)
              /\ ev' = [op |-> "check_available_slots", centre |-> name,
                        err |-> r.err, slots |-> r.slots, raised |-> shot_raises,
                        page |-> page, index |-> current_index,
                        outcome |-> outcome]
              /\ IF shot_raises
                 THEN available_slots' = <<>> /\ slot_page' = 0 /\ EndCycle
                 ELSE IF HasSlots(r.slots)
                 THEN /\ available_slots' = r.sorted
                      /\ slot_page' = page
                      /\ pc' = "book" /\ UNCHANGED <<ci, site>>
                 ELSE available_slots' = <<>> /\ slot_page' = 0 /\ Advance(FALSE)
    /\ UNCHANGED <<rotVars, now, harnVars, sessVars, hpc, hpc2, held, cycle, histVars>>

\* earliest_slot = available_slots[0]
earliest_slot == available_slots[1]

Attempt(ret) == [centre |-> ci, ret |-> ret]

\* book_slot(earliest_slot), its first click, on the page that self.page was
\* when the scan returned, and the random_delay after it. An exception makes
\* book_slot return False after a screenshot; if the screenshot raises too,
\* book_slot raises and the cycle ends through its handler.
BookSelect ==
    /\ pc = "book"
    /\ \E outcome \in {"ok", "raise", "raise_shot"} :
          /\ outcome = "ok" => Open("page", slot_page)
          /\ ev' = [op |-> "book_slot", stage |-> "clicks", step |-> "select",
                    slot |-> earliest_slot,
                    outcome |-> IF outcome = "ok" THEN "Pending" ELSE "Failed",
                    ret |-> FALSE, raised |-> outcome = "raise_shot",
                    page |-> slot_page, found_on |-> slot_page]
          /\ IF outcome = "ok"
             THEN /\ pc' = "book_next"
                  /\ UNCHANGED <<ci, site, booked, available_slots, slot_page>>
             ELSE /\ booked' = Append(booked, Attempt(FALSE))
                  /\ available_slots' = <<>> /\ slot_page' = 0
                  /\ IF outcome = "raise" THEN Advance(FALSE) ELSE EndCycle
    /\ UNCHANGED <<rotVars, now, harnVars, sessVars, authVars, hpc, hpc2, held, cycle, scanned,
                   confirmed, notified>>

\* book_slot, the clicks on ".SlotPicker-next" and "#confirm-changes", each
\* on what self.page is after the delay before it. They find their target
\* only on the page that showed the slot.
BookContinue ==
    /\ pc = "book_next"
    /\ \E outcome \in {"ok", "raise", "raise_shot"} :
          /\ outcome = "ok" => Open("page", page) /\ page = slot_page
          /\ ev' = [op |-> "book_slot", stage |-> "clicks", step |-> "continue",
                    slot |-> earliest_slot,
                    outcome |-> IF outcome = "ok" THEN "Pending" ELSE "Failed",
                    ret |-> FALSE, raised |-> outcome = "raise_shot",
                    page |-> page, found_on |-> slot_page]
          /\ IF outcome = "ok"
             THEN /\ pc' = "confirm"
                  /\ UNCHANGED <<ci, site, booked, available_slots, slot_page>>
             ELSE /\ booked' = Append(booked, Attempt(FALSE))
                  /\ available_slots' = <<>> /\ slot_page' = 0
                  /\ IF outcome = "raise" THEN Advance(FALSE) ELSE EndCycle
    /\ UNCHANGED <<rotVars, now, harnVars, sessVars, authVars, hpc, hpc2, held, cycle, scanned,
                   confirmed, notified>>

\* book_slot, from the wait for the confirmation surface to its return, and
\* the "if success: return True" of the cycle, which ends run's loop.
BookConfirm ==
    /\ pc = "confirm"
    /\ \E surface \in BOOLEAN, text \in Texts,
          email_fails \in BOOLEAN, sms_fails \in BOOLEAN, shot_raises \in BOOLEAN :
          LET r == book_confirm(surface, text, email_fails, sms_fails, shot_raises) IN
          /\ surface => Open("page", slot_page)
          /\ ~ surface => text = None
          /\ r.outcome # "Confirmed" => ~ email_fails /\ ~ sms_fails /\ ~ shot_raises
          /\ ev' = [op |-> "book_slot", stage |-> "confirm", slot |-> earliest_slot,
                    outcome |-> r.outcome, ret |-> r.ret,
                    surface |-> surface, text |-> text,
                    email_fails |-> email_fails, sms_fails |-> sms_fails,
                    shot_raises |-> shot_raises,
                    notify |-> IF r.called THEN <<NotifyArgs(earliest_slot)>> ELSE <<>>]
          /\ booked' = Append(booked, Attempt(r.ret))
          /\ confirmed' = IF r.outcome = "Confirmed" THEN confirmed + 1 ELSE confirmed
          /\ notified' = IF r.called THEN notified + 1 ELSE notified
          /\ available_slots' = <<>> /\ slot_page' = 0
          /\ IF r.ret
             THEN pc' = "td_page" /\ ci' = 1 /\ site' = "Nothing"
             ELSE Advance(FALSE)
    /\ UNCHANGED <<rotVars, now, harnVars, sessVars, authVars, hpc, hpc2, held, cycle, scanned>>

\* random.randint(a, b) with a lower end of zero: no wait at all is possible.
randint_FromZero(a, b) == 0..b

\* random.randint(a, b): the values the wait of run can take, both ends included.
randint(a, b) == a..b

\* The wait between two cycles: asyncio.sleep(random.randint(min, max)).
Sleep ==
    /\ pc = "sleep"
    /\ cycle < MaxCycles
    /\ \E wait_time \in randint(check_interval[1], check_interval[2]) :
          ev' = [op |-> "sleep", wait_time |-> wait_time]
    /\ cycle' = cycle + 1
    /\ pc' = "cycle"
    /\ UNCHANGED <<rotVars, now, harnVars, sessVars, authVars, hpc, hpc2, held, scanned,
                   ci, site, available_slots, slot_page, histVars>>

\* KeyboardInterrupt while the loop runs: on to the finally block.
Interrupt ==
    /\ pc \in {"cycle", "login", "login_wait", "login_query", "centre", "scan",
               "book", "book_next", "confirm", "sleep"}
    /\ pc' = "td_page"
    /\ ci' = 1 /\ available_slots' = <<>> /\ slot_page' = 0 /\ site' = "Nothing"
    /\ held' = 0
    /\ ev' = [op |-> "interrupt"]
    /\ UNCHANGED <<rotVars, now, harnVars, sessVars, authVars, hpc, hpc2, cycle, scanned, histVars>>

\* The finally block of run: page.close(), context.close(), browser.close(),
\* each only if its handle is set. An exception of one ends run at once.
TeardownPage ==
    /\ pc = "td_page"
    /\ \E ok \in BOOLEAN :
          /\ page = 0 => ok
          /\ live' = IF ok THEN ClosePage(page) ELSE live
          /\ pc' = IF ok THEN "td_context" ELSE "exit"
          /\ ev' = [op |-> "teardown", step |-> "page", raised |-> ~ ok]
    /\ UNCHANGED <<rotVars, now, harnVars, browser, context, page, nsess, launched, authVars,
                   hpc, hpc2, held, cycVars, histVars>>

TeardownContext ==
    /\ pc = "td_context"
    /\ \E ok \in BOOLEAN :
          /\ context = 0 => ok
          /\ live' = IF ok THEN CloseContext(context) ELSE live
          /\ pc' = IF ok THEN "td_browser" ELSE "exit"
          /\ ev' = [op |-> "teardown", step |-> "context", raised |-> ~ ok]
    /\ UNCHANGED <<rotVars, now, harnVars, browser, context, page, nsess, launched, authVars,
                   hpc, hpc2, held, cycVars, histVars>>

TeardownBrowser ==
    /\ pc = "td_browser"
    /\ \E ok \in BOOLEAN :
          /\ browser = 0 => ok
          /\ live' = IF ok THEN CloseBrowser(browser) ELSE live
          /\ ev' = [op |-> "teardown", step |-> "browser", raised |-> ~ ok]
    /\ pc' = "exit"
    /\ UNCHANGED <<rotVars, now, harnVars, browser, context, page, nsess, launched, authVars,
                   hpc, hpc2, held, cycVars, histVars>>

(***************************************************************************)
(* The response listener, a task of its own                                *)
(***************************************************************************)
\* handle_response for one response of the live context, in the task the
\* event starts for it: api is whether its URL holds "api" or "ajax".
\*   t: the task; at, to: where the task is before and after the step
handle_response(t, at, to) ==
    /\ at = "idle"
    /\ pc \notin {"setup", "exit"}
    /\ Open("context", context)
    /\ \E api \in BOOLEAN, status \in Statuses :
          IF api /\ status \in {403, 429}
          THEN \E ret \in BOOLEAN :
                  /\ rotate_if_needed(ret)
                  /\ to = IF RestartWanted(ret) THEN "rs_page" ELSE "idle"
                  /\ ev' = [op |-> "handle_response", status |-> status, ret |-> ret,
                            task |-> t]
          ELSE UNCHANGED <<rotVars, ev>> /\ to = at
    /\ UNCHANGED <<now, harnVars, sessVars, authVars, pc, held, cycVars, histVars>>

\* "self.logged_in = False"
ResetLogin(flag) == FALSE

\* restart_session, one await at a time. An exception ends the task.
restart_close_page(t, at, to) ==
    /\ at = "rs_page" /\ pc # "exit"
    /\ \E ok \in BOOLEAN :
          /\ page = 0 => ok
          /\ live' = IF ok THEN ClosePage(page) ELSE live
          /\ to = IF ok THEN "rs_context" ELSE "idle"
          /\ ev' = [op |-> "restart_session", step |-> "page", raised |-> ~ ok,
                    task |-> t]
    /\ UNCHANGED <<rotVars, now, harnVars, browser, context, page, nsess, launched,
                   authVars, pc, held, cycVars, histVars>>

restart_close_context(t, at, to) ==
    /\ at = "rs_context" /\ pc # "exit"
    /\ \E ok \in BOOLEAN :
          /\ context = 0 => ok
          /\ live' = IF ok THEN CloseContext(context) ELSE live
          /\ to = IF ok THEN "rs_browser" ELSE "idle"
          /\ ev' = [op |-> "restart_session", step |-> "context", raised |-> ~ ok,
                    task |-> t]
    /\ UNCHANGED <<rotVars, now, harnVars, browser, context, page, nsess, launched,
                   authVars, pc, held, cycVars, histVars>>

\* browser.close(), then self.logged_in = False, up to the start of
\* setup_browser.
restart_close_browser(t, at, to) ==
    /\ at = "rs_browser" /\ pc # "exit"
    /\ \E ok \in BOOLEAN :
          /\ browser = 0 => ok
          /\ live' = IF ok THEN CloseBrowser(browser) ELSE live
          /\ logged_in' = IF ok THEN ResetLogin(logged_in) ELSE logged_in
          /\ to = IF ok THEN "sb_launch" ELSE "idle"
          /\ ev' = [op |-> "restart_session", step |-> "browser", raised |-> ~ ok,
                    task |-> t]
    /\ UNCHANGED <<rotVars, now, harnVars, browser, context, page, nsess, launched,
                   login_page, pc, held, cycVars, histVars>>

\* setup_browser, called by restart_session: async_playwright().start(), the
\* proxy URL of the rotator's current endpoint, and the launch.
restart_launch(t, at, to) ==
    /\ at = "sb_launch" /\ pc # "exit"
    /\ \E ok \in BOOLEAN :
          LET n == nsess + 1 IN
          /\ nsess' = n
          /\ launched' = Append(launched, current_index)
          /\ browser' = IF ok THEN n ELSE browser
          /\ live' = live \cup {Driver(n)} \cup (IF ok THEN {Handle("browser", n)} ELSE {})
          /\ to = IF ok THEN "sb_context" ELSE "idle"
          /\ ev' = [op |-> "restart_session", step |-> "launch", raised |-> ~ ok,
                    task |-> t]
    /\ UNCHANGED <<rotVars, now, harnVars, context, page, authVars, pc, held, cycVars,
                   histVars>>

restart_new_context(t, at, to) ==
    /\ at = "sb_context" /\ pc # "exit"
    /\ \E ok \in BOOLEAN :
          /\ ok => Open("browser", browser)
          /\ context' = IF ok THEN browser ELSE context
          /\ live' = IF ok THEN live \cup {Handle("context", browser)} ELSE live
          /\ to = IF ok THEN "sb_page" ELSE "idle"
          /\ ev' = [op |-> "restart_session", step |-> "new_context", raised |-> ~ ok,
                    task |-> t]
    /\ UNCHANGED <<rotVars, now, harnVars, browser, page, nsess, launched, authVars, pc,
                   held, cycVars, histVars>>

\* new_page and the assignment of self.page, up to add_init_script.
restart_new_page(t, at, to) ==
    /\ at = "sb_page" /\ pc # "exit"
    /\ \E ok \in BOOLEAN :
          /\ ok => Open("context", context)
          /\ page' = IF ok THEN context ELSE page
          /\ live' = IF ok THEN live \cup {Handle("page", context)} ELSE live
          /\ to = IF ok THEN "sb_script" ELSE "idle"
          /\ ev' = [op |-> "restart_session", step |-> "new_page", raised |-> ~ ok,
                    task |-> t]
    /\ UNCHANGED <<rotVars, now, harnVars, browser, context, nsess, launched, authVars,
                   pc, held, cycVars, histVars>>

\* add_init_script ends, and restart_session returns.
restart_init_script(t, at, to) ==
    /\ at = "sb_script" /\ pc # "exit"
    /\ \E ok \in BOOLEAN :
          /\ ok => Open("page", page)
          /\ ev' = [op |-> "restart_session", step |-> "init_script", raised |-> ~ ok,
                    task |-> t]
    /\ to = "idle"
    /\ UNCHANGED <<rotVars, now, harnVars, sessVars, authVars, pc, held, cycVars,
                   histVars>>

\* The steps of the listener's task.
HandleResponse == handle_response(1, hpc, hpc') /\ UNCHANGED hpc2
RestartClosePage == restart_close_page(1, hpc, hpc') /\ UNCHANGED hpc2
RestartCloseContext == restart_close_context(1, hpc, hpc') /\ UNCHANGED hpc2
RestartCloseBrowser == restart_close_browser(1, hpc, hpc') /\ UNCHANGED hpc2
RestartLaunch == restart_launch(1, hpc, hpc') /\ UNCHANGED hpc2
RestartNewContext == restart_new_context(1, hpc, hpc') /\ UNCHANGED hpc2
RestartNewPage == restart_new_page(1, hpc, hpc') /\ UNCHANGED hpc2
RestartInitScript == restart_init_script(1, hpc, hpc') /\ UNCHANGED hpc2

\* Time passes.
Tick ==
    /\ now < MaxTime
    /\ now' = now + 1
    /\ UNCHANGED <<rotVars, ev, harnVars, sessVars, authVars, pc, hpc, hpc2, held, cycVars,
                   histVars>>

Next ==
    \/ SetupBrowser
    \/ StartCycle
    \/ LoginSubmit
    \/ LoginResult
    \/ LoginQuery
    \/ CentreLoop
    \/ ScanCentre
    \/ BookSelect
    \/ BookContinue
    \/ BookConfirm
    \/ Sleep
    \/ Interrupt
    \/ TeardownPage
    \/ TeardownContext
    \/ TeardownBrowser
    \/ HandleResponse
    \/ RestartClosePage
    \/ RestartCloseContext
    \/ RestartCloseBrowser
    \/ RestartLaunch
    \/ RestartNewContext
    \/ RestartNewPage
    \/ RestartInitScript
    \/ Tick

Spec == Init /\ [][Next]_vars

(***************************************************************************)
(* The run without a bound on its cycles, and with its scheduling          *)
(***************************************************************************)
\* The wait between two cycles from cycle MaxCycles on: "while True" goes
\* on, the model stops counting the cycles and keeps of the counts of
\* confirmations and notifications only whether there was one.
SleepOn ==
    /\ pc = "sleep"
    /\ cycle = MaxCycles
    /\ \E wait_time \in randint(check_interval[1], check_interval[2]) :
          ev' = [op |-> "sleep", wait_time |-> wait_time]
    /\ pc' = "cycle"
    /\ confirmed' = IF confirmed > 0 THEN 1 ELSE 0
    /\ notified' = IF notified > 0 THEN 1 ELSE 0
    /\ UNCHANGED <<rotVars, now, harnVars, sessVars, authVars, hpc, hpc2, held, cycVars,
                   booked>>

\* The steps of run's coroutine. The event loop resumes it whenever the
\* awaitable it waits on is done, and each of them ends, by its result, its
\* timeout or an exception.
RunStep ==
    \/ SetupBrowser
    \/ StartCycle
    \/ LoginSubmit
    \/ LoginResult
    \/ LoginQuery
    \/ CentreLoop
    \/ ScanCentre
    \/ BookSelect
    \/ BookContinue
    \/ BookConfirm
    \/ Sleep
    \/ SleepOn
    \/ TeardownPage
    \/ TeardownContext
    \/ TeardownBrowser

\* The steps of the listener's task once it has begun restart_session.
RestartStep ==
    \/ RestartClosePage
    \/ RestartCloseContext
    \/ RestartCloseBrowser
    \/ RestartLaunch
    \/ RestartNewContext
    \/ RestartNewPage
    \/ RestartInitScript

NextLive ==
    \/ Next
    \/ SleepOn

SpecLive ==
    Init /\ [][NextLive]_vars /\ WF_vars(RunStep) /\ WF_vars(RestartStep)

(***************************************************************************)
(* The run with two tasks of the response listener                         *)
(***************************************************************************)
\* Every response starts a task of handle_response. The second task is the
\* one a response starts while the first is at work. Of the cycle, the run
\* goes through the login; it scans and claims nothing.
InitListeners ==
    /\ current_index = 0 /\ last_rotation_time = 0 /\ now = 0 /\ rot_trace = <<0>>
    /\ ev = [op |-> "init"]
    /\ scan_criteria = CriteriaJune /\ scan_listing = <<>> /\ scan_result = NotScanned
    /\ form = <<>> /\ flagged = {} /\ written = {} /\ lg = NoLogin
    /\ fingerprint = Unset /\ context_options = Unset
    /\ browser = 0 /\ context = 0 /\ page = 0
    /\ logged_in = FALSE /\ login_page = 0
    /\ live = {} /\ nsess = 0 /\ launched = <<>>
    /\ pc = "setup" /\ hpc = "idle" /\ hpc2 = "idle" /\ held = 0
    /\ cycle = 1 /\ scanned = <<>> /\ ci = 1 /\ site = "Nothing"
    /\ available_slots = <<>> /\ slot_page = 0
    /\ booked = <<>> /\ confirmed = 0 /\ notified = 0

HandleResponse2 == hpc # "idle" /\ handle_response(2, hpc2, hpc2') /\ UNCHANGED hpc
RestartClosePage2 == restart_close_page(2, hpc2, hpc2') /\ UNCHANGED hpc
RestartCloseContext2 == restart_close_context(2, hpc2, hpc2') /\ UNCHANGED hpc
RestartCloseBrowser2 == restart_close_browser(2, hpc2, hpc2') /\ UNCHANGED hpc
RestartLaunch2 == restart_launch(2, hpc2, hpc2') /\ UNCHANGED hpc
RestartNewContext2 == restart_new_context(2, hpc2, hpc2') /\ UNCHANGED hpc
RestartNewPage2 == restart_new_page(2, hpc2, hpc2') /\ UNCHANGED hpc
RestartInitScript2 == restart_init_script(2, hpc2, hpc2') /\ UNCHANGED hpc

MaxListenTime == 3

ListenTick ==
    /\ now < MaxListenTime
    /\ now' = now + 1
    /\ UNCHANGED <<rotVars, ev, harnVars, sessVars, authVars, pc, hpc, hpc2, held,
                   cycVars, histVars>>

NextListeners ==
    \/ SetupBrowser
    \/ StartCycle
    \/ LoginSubmit
    \/ LoginResult
    \/ LoginQuery
    \/ Sleep
    \/ Interrupt
    \/ TeardownPage
    \/ TeardownContext
    \/ TeardownBrowser
    \/ HandleResponse
    \/ RestartClosePage
    \/ RestartCloseContext
    \/ RestartCloseBrowser
    \/ RestartLaunch
    \/ RestartNewContext
    \/ RestartNewPage
    \/ RestartInitScript
    \/ HandleResponse2
    \/ RestartClosePage2
    \/ RestartCloseContext2
    \/ RestartCloseBrowser2
    \/ RestartLaunch2
    \/ RestartNewContext2
    \/ RestartNewPage2
    \/ RestartInitScript2
    \/ ListenTick

SpecListeners == InitListeners /\ [][NextListeners]_vars

(***************************************************************************)
(* Harness of the rotator: its two operations, called in any order         *)
(***************************************************************************)
restVars == <<harnVars, sessVars, authVars, pc, hpc, hpc2, held, cycVars, histVars>>

InitRest ==
    /\ form = <<>> /\ flagged = {} /\ written = {} /\ lg = NoLogin
    /\ fingerprint = Unset /\ context_options = Unset
    /\ browser = 0 /\ context = 0 /\ page = 0
    /\ logged_in = FALSE /\ login_page = 0
    /\ live = {} /\ nsess = 0 /\ launched = <<>>
    /\ pc = "off" /\ hpc = "off" /\ hpc2 = "off" /\ held = 0
    /\ cycle = 1 /\ scanned = <<>> /\ ci = 1 /\ site = "Nothing" /\ available_slots = <<>>
    /\ slot_page = 0
    /\ booked = <<>> /\ confirmed = 0 /\ notified = 0

InitRot ==
    /\ current_index = 0 /\ last_rotation_time = 0 /\ now = 0 /\ rot_trace = <<0>>
    /\ ev = [op |-> "init"]
    /\ scan_criteria = CriteriaJune /\ scan_listing = <<>> /\ scan_result = NotScanned
    /\ InitRest

CallRotateIfNeeded ==
    /\ \E ret \in BOOLEAN :
          /\ rotate_if_needed(ret)
          /\ ev' = [op |-> "rotate_if_needed", ret |-> ret, index |-> current_index,
                    last |-> last_rotation_time, at |-> now]
    /\ UNCHANGED <<now, restVars>>

CallRotate ==
    /\ rotate
    /\ ev' = [op |-> "rotate", ret |-> TRUE, index |-> current_index,
              last |-> last_rotation_time, at |-> now]
    /\ UNCHANGED <<now, restVars>>

MaxRotTime == 4

HarnessTick ==
    /\ now < MaxRotTime
    /\ now' = now + 1
    /\ UNCHANGED <<rotVars, ev, restVars>>

NextRot ==
    \/ HarnessTick
    \/ CallRotateIfNeeded
    \/ CallRotate

SpecRot == InitRot /\ [][NextRot]_vars

(***************************************************************************)
(* Harness of the scanner: any listing, under any of the criteria          *)
(***************************************************************************)
CriteriaNarrow ==
    [start_date |-> Day(2024, 6, 3), end_date |-> Day(2024, 6, 5),
     preferred_days |-> {0, 1, 2}, earliest |-> T_0930, latest |-> T_1000]

CriteriaSet == {CriteriaJune, CriteriaNarrow}

TimeLists == { <<T_0900, T_1200>>, <<T_1000, T_930>>, <<T_0859, T_0930, T_1201>> }

EntrySet ==
    { Entry(d, t) : d \in {D_0603, D_0604, D_0605, D_0701, D_63}, t \in TimeLists }
    \cup { Entry(D_1301, <<T_0930>>), Entry(None, <<T_0930>>),
           Entry(D_0603, <<None, T_0930>>), Entry(D_0605, <<T_0930, T_bad>>),
           [Entry(D_0603, <<T_0930>>) EXCEPT !.disabled = TRUE],
           [Entry(D_0605, <<T_0930>>) EXCEPT !.click_ok = FALSE],
           [Entry(D_0603, <<T_0930>>) EXCEPT !.panel = FALSE] }

MaxDates == 2

RECURSIVE SeqsUpTo(_, _)
SeqsUpTo(S, n) ==
    IF n = 0 THEN {<<>>}
    ELSE LET shorter == SeqsUpTo(S, n - 1) IN
         shorter \cup { Append(q, x) : q \in shorter, x \in S }

InitScan ==
    /\ scan_criteria \in CriteriaSet
    /\ scan_listing \in SeqsUpTo(EntrySet, MaxDates)
    /\ scan_result = NotScanned
    /\ ev = [op |-> "init"]
    /\ current_index = 0 /\ last_rotation_time = 0 /\ now = 0 /\ rot_trace = <<0>>
    /\ InitRest

RunScan ==
    /\ ~ scan_result.done
    /\ scan_result' =
          [done |-> TRUE, clicked |-> clicked_dates(scan_listing, scan_criteria)]
             @@ check_available_slots("A", scan_listing, scan_criteria)
    /\ ev' = [op |-> "check_available_slots"]
    /\ UNCHANGED <<scan_criteria, scan_listing, rotVars, now>>
    /\ UNCHANGED <<honeyVars, lg, fpVars, sessVars, authVars, pc, hpc, hpc2, held, cycVars,
                   histVars>>

NextScan == RunScan

SpecScan == InitScan /\ [][NextScan]_vars

(***************************************************************************)
(* Harness of the honeypot scan and the typing of login                    *)
(***************************************************************************)
\* Substrings the honeypot selectors ask for, and the attribute values of
\* the inputs of the forms below.
P_display_none      == <<"d", "i", "s", "p", "l", "a", "y", ":", " ", "n", "o", "n", "e">>
P_visibility_hidden == <<"v", "i", "s", "i", "b", "i", "l", "i", "t", "y", ":", " ", "h", "i", "d", "d", "e", "n">>
P_opacity_0         == <<"o", "p", "a", "c", "i", "t", "y", ":", " ", "0">>
P_hp                == <<"h", "p">>
P_honey             == <<"h", "o", "n", "e", "y">>
P_pot               == <<"p", "o", "t">>
P_bot               == <<"b", "o", "t">>
P_position_absolute == <<"p", "o", "s", "i", "t", "i", "o", "n", ":", " ", "a", "b", "s", "o", "l", "u", "t", "e">>
P_left_minus        == <<"l", "e", "f", "t", ":", " ", "-">>
P_top_minus         == <<"t", "o", "p", ":", " ", "-">>
A_text              == <<"t", "e", "x", "t">>
I_licence           == <<"d", "r", "i", "v", "i", "n", "g", "-", "l", "i", "c", "e", "n", "c", "e", "-", "n", "u", "m", "b", "e", "r">>
I_reference         == <<"a", "p", "p", "l", "i", "c", "a", "t", "i", "o", "n", "-", "r", "e", "f", "e", "r", "e", "n", "c", "e", "-", "n", "u", "m", "b", "e", "r">>
I_email2            == <<"e", "m", "a", "i", "l", "2">>
N_username          == <<"u", "s", "e", "r", "n", "a", "m", "e">>
N_bot_licence       == <<"b", "o", "t", "-", "l", "i", "c", "e", "n", "c", "e">>
N_password          == <<"p", "a", "s", "s", "w", "o", "r", "d">>
N_hp_ref            == <<"h", "p", "_", "r", "e", "f">>
N_honeypot          == <<"h", "o", "n", "e", "y", "p", "o", "t">>
Y_none              == <<>>
Y_opacity_09        == <<"o", "p", "a", "c", "i", "t", "y", ":", " ", "0", ".", "9">>
Y_display_none      == <<"d", "i", "s", "p", "l", "a", "y", ":", " ", "n", "o", "n", "e">>
Y_off_left          == <<"p", "o", "s", "i", "t", "i", "o", "n", ":", " ", "a", "b", "s", "o", "l", "u", "t", "e", ";", " ", "l", "e", "f", "t", ":", " ", "-", "9", "9", "9", "p", "x">>
Y_visibility_hidden == <<"v", "i", "s", "i", "b", "i", "l", "i", "t", "y", ":", " ", "h", "i", "d", "d", "e", "n">>

\* honeypot_selectors: each asks for type="text" or not, and for substrings
\* of the style and of the name attribute.
Selector(type_text, style, name) == [type_text |-> type_text, style |-> style, name |-> name]

honeypot_selectors ==
    << Selector(TRUE, <<P_display_none>>, <<>>),
       Selector(TRUE, <<P_visibility_hidden>>, <<>>),
       Selector(FALSE, <<P_opacity_0>>, <<>>),
       Selector(FALSE, <<>>, <<P_hp>>),
       Selector(FALSE, <<>>, <<P_honey>>),
       Selector(FALSE, <<>>, <<P_pot>>),
       Selector(FALSE, <<>>, <<P_bot>>),
       Selector(FALSE, <<P_position_absolute, P_left_minus>>, <<>>),
       Selector(FALSE, <<P_position_absolute, P_top_minus>>, <<>>) >>

\* query_selector_all(selector): whether an input matches.
Matches(input, selector) ==
    /\ selector.type_text => input.type = A_text
    /\ \A k \in 1..Len(selector.style) : Contains(input.style, selector.style[k])
    /\ \A k \in 1..Len(selector.name) : Contains(input.name, selector.name[k])

\* The inputs identify_and_avoid_honeypots reports, by their place in the form.
identify_and_avoid_honeypots(inputs) ==
    { i \in 1..Len(inputs) :
        \E k \in 1..Len(honeypot_selectors) : Matches(inputs[i], honeypot_selectors[k]) }

\* Playwright's visible: an input that has a box and is not visibility: hidden.
Visible(input) ==
    /\ ~ Contains(input.style, P_display_none)
    /\ ~ Contains(input.style, P_visibility_hidden)

\* page.wait_for_selector("#id"): the first input with the id, once it is
\* visible; 0 when the wait times out.
wait_for_selector(inputs, id) ==
    LET with_id == { i \in 1..Len(inputs) : inputs[i].id = id } IN
    IF with_id = {} THEN 0
    ELSE LET first == CHOOSE i \in with_id : \A j \in with_id : i <= j IN
         IF Visible(inputs[first]) THEN first ELSE 0

Input(id, name, style) == [id |-> id, type |-> A_text, name |-> name, style |-> style]

\* The login forms of the harness: the two inputs login types into, after a
\* decoy or not.
LicenceInputs ==
    { Input(I_licence, n, y) :
        n \in {N_username, N_bot_licence},
        y \in {Y_none, Y_opacity_09, Y_display_none, Y_off_left} }

ReferenceInputs ==
    { Input(I_reference, n, y) :
        n \in {N_password, N_hp_ref}, y \in {Y_none, Y_visibility_hidden} }

Decoys == { <<>>, <<Input(I_email2, N_honeypot, Y_display_none)>> }

FormSet == { d \o <<a, b>> : d \in Decoys, a \in LicenceInputs, b \in ReferenceInputs }

InitHoney ==
    /\ form \in FormSet /\ flagged = {} /\ written = {} /\ lg = NoLogin
    /\ fingerprint = Unset /\ context_options = Unset
    /\ pc = "honey_scan"
    /\ ev = [op |-> "init"]
    /\ current_index = 0 /\ last_rotation_time = 0 /\ now = 0 /\ rot_trace = <<0>>
    /\ scan_criteria = CriteriaJune /\ scan_listing = <<>> /\ scan_result = NotScanned
    /\ browser = 0 /\ context = 0 /\ page = 0
    /\ logged_in = FALSE /\ login_page = 0
    /\ live = {} /\ nsess = 0 /\ launched = <<>>
    /\ hpc = "off" /\ hpc2 = "off" /\ held = 0
    /\ cycle = 1 /\ scanned = <<>> /\ ci = 1 /\ site = "Nothing" /\ available_slots = <<>>
    /\ slot_page = 0
    /\ booked = <<>> /\ confirmed = 0 /\ notified = 0

honeyRest ==
    <<rotVars, now, scanVars, lg, fpVars, sessVars, authVars, hpc, hpc2, held, cycVars,
      histVars>>

\* login: "await HoneypotDetector.identify_and_avoid_honeypots(self.page)",
\* whose result login does not use.
HoneyScan ==
    /\ pc = "honey_scan"
    /\ flagged' = identify_and_avoid_honeypots(form)
    /\ pc' = "type_licence"
    /\ ev' = [op |-> "identify_and_avoid_honeypots"]
    /\ UNCHANGED <<form, written, honeyRest>>

\* type_like_human(selector, text): the wait for the input, the triple click
\* and the typing; a wait that times out raises and ends login.
type_like_human(id, next) ==
    LET element == wait_for_selector(form, id) IN
    /\ written' = IF element = 0 THEN written ELSE written \cup {element}
    /\ pc' = IF element = 0 THEN "honey_raised" ELSE next
    /\ ev' = [op |-> "type_like_human", element |-> element]
    /\ UNCHANGED <<form, flagged, honeyRest>>

TypeLicence == pc = "type_licence" /\ type_like_human(I_licence, "type_reference")

TypeReference == pc = "type_reference" /\ type_like_human(I_reference, "honey_done")

NextHoney ==
    \/ HoneyScan
    \/ TypeLicence
    \/ TypeReference

SpecHoney == InitHoney /\ [][NextHoney]_vars


(***************************************************************************)
(* Harness of login: one call, step by step, with its challenge handling   *)
(***************************************************************************)
W_Timeout == <<"T", "i", "m", "e", "o", "u", "t">>

\* The messages of the exceptions Playwright raises in the model, and the
\* one handle_cf_challenge raises itself.
E_ProbeTimeout ==
    <<"T", "i", "m", "e", "o", "u", "t", " ", "5", "0", "0", "0", "m", "s",
      " ", "e", "x", "c", "e", "e", "d", "e", "d", ".">>

E_ShotTimeout ==
    <<"T", "i", "m", "e", "o", "u", "t", " ", "3", "0", "0", "0", "0", "m",
      "s", " ", "e", "x", "c", "e", "e", "d", "e", "d", ".">>

E_TargetClosed ==
    <<"T", "a", "r", "g", "e", "t", " ", "c", "l", "o", "s", "e", "d">>

E_ChallengeFailed ==
    <<"F", "a", "i", "l", "e", "d", " ", "t", "o", " ", "p", "a", "s", "s",
      " ", "C", "l", "o", "u", "d", "f", "l", "a", "r", "e", " ", "c", "h",
      "a", "l", "l", "e", "n", "g", "e">>

Return(value) == [kind |-> "return", value |-> value, msg |-> <<>>]
Raise(msg) == [kind |-> "raise", value |-> FALSE, msg |-> msg]

\* str(e) of what a wait or a screenshot raises: a timeout, or another error.
ProbeError(outcome) == IF outcome = "timeout" THEN E_ProbeTimeout ELSE E_TargetClosed
ShotError(outcome) == IF outcome = "timeout" THEN E_ShotTimeout ELSE E_TargetClosed

\* handle_cf_challenge.
\*   probe:   the wait for a challenge marker (marker, timeout, error)
\*   resolve: the wait for the challenge to clear (passed, timeout, error)
\*   shot:    the screenshot after a failed resolve (ok, timeout, error)
\* The inner handler takes the screenshot and raises "Failed to pass
\* Cloudflare challenge"; the outer handler returns False for every exception
\* whose message holds "Timeout" and raises the others again.
handle_cf_challenge(probe, resolve, shot) ==
    LET body == IF probe # "marker" THEN Raise(ProbeError(probe))
                ELSE IF resolve = "passed" THEN Return(TRUE)
                ELSE IF shot # "ok" THEN Raise(ShotError(shot))
                ELSE Raise(E_ChallengeFailed)
    IN  IF body.kind = "raise" /\ Contains(body.msg, W_Timeout)
        THEN Return(FALSE)
        ELSE body

\* solve_recaptcha: the token, or the solver's exception, logged and raised
\* again.
solve_recaptcha(solved) == IF solved THEN Return(TRUE) ELSE Raise(E_TargetClosed)

InitLogin ==
    /\ current_index = 0 /\ last_rotation_time = 0 /\ now = 0 /\ rot_trace = <<0>>
    /\ ev = [op |-> "init"]
    /\ scan_criteria = CriteriaJune /\ scan_listing = <<>> /\ scan_result = NotScanned
    /\ form = <<>> /\ flagged = {} /\ written = {} /\ lg = NoLogin
    /\ fingerprint = Unset /\ context_options = Unset
    /\ browser = 1 /\ context = 1 /\ page = 1
    /\ logged_in = FALSE /\ login_page = 0
    /\ live = {Driver(1), Handle("browser", 1), Handle("context", 1), Handle("page", 1)}
    /\ nsess = 1 /\ launched = <<0>>
    /\ pc = "lg_entry" /\ hpc = "off" /\ hpc2 = "off" /\ held = 0
    /\ cycle = 1 /\ scanned = <<>> /\ ci = 1 /\ site = "Nothing"
    /\ available_slots = <<>> /\ slot_page = 0
    /\ booked = <<>> /\ confirmed = 0 /\ notified = 0

loginRest ==
    <<rotVars, now, scanVars, honeyVars, fpVars, sessVars, login_page, hpc, hpc2,
      held, cycVars, histVars>>

\* A step of login's outer try block: done, and on to the next; or an
\* exception, and on to the handler.
LoginStep(name, ok, next) ==
    /\ lg' = IF ok THEN [lg EXCEPT !.steps = Append(@, name)]
             ELSE [lg EXCEPT !.cause = name]
    /\ pc' = IF ok THEN next ELSE "lg_handler"
    /\ ev' = [op |-> "login", step |-> name, raised |-> ~ ok]
    /\ UNCHANGED <<logged_in, loginRest>>

\* "if self.logged_in" with the flag never set: every call goes on.
AlreadyLoggedIn_Never(flag) == FALSE

\* "if self.logged_in": the test at the head of login.
AlreadyLoggedIn(flag) == flag

\* login is called, for the first time or again after it returned or raised.
\* With self.logged_in set it returns True at once; otherwise the call goes
\* on to its try block.
LoginEntry ==
    /\ pc \in {"lg_entry", "lg_done"}
    /\ IF AlreadyLoggedIn(logged_in)
       THEN /\ lg' = [lg EXCEPT !.ret = "True", !.cause = "none"]
            /\ pc' = "lg_done"
       ELSE /\ lg' = NoLogin
            /\ pc' = "lg_goto"
    /\ ev' = [op |-> "login", step |-> "entry", raised |-> FALSE,
              already |-> AlreadyLoggedIn(logged_in)]
    /\ UNCHANGED <<logged_in, loginRest>>

\* "if self.logged_in" does not hold; goto(BASE_URL).
LoginGoto ==
    pc = "lg_goto" /\ \E ok \in BOOLEAN : LoginStep("goto", ok, "lg_challenge_1")

\* handle_cf_challenge(self.page), after either goto. login drops what it
\* returns.
LoginChallenge ==
    /\ pc \in {"lg_challenge_1", "lg_challenge_2"}
    /\ \E probe \in {"marker", "timeout", "error"},
          resolve \in {"passed", "timeout", "error"},
          shot \in {"ok", "timeout", "error"} :
          LET r == handle_cf_challenge(probe, resolve, shot) IN
          /\ probe # "marker" => resolve = "passed"
          /\ resolve = "passed" => shot = "ok"
          /\ lg' = IF r.kind = "return"
                   THEN [lg EXCEPT !.steps = Append(@, "challenge"),
                                   !.cf = Append(@, r.value)]
                   ELSE [lg EXCEPT !.cause = "challenge"]
          /\ pc' = IF r.kind = "raise" THEN "lg_handler"
                   ELSE IF pc = "lg_challenge_1" THEN "lg_start" ELSE "lg_type"
          /\ ev' = [op |-> "handle_cf_challenge", probe |-> probe, resolve |-> resolve,
                    shot |-> shot, result |-> r]
    /\ UNCHANGED <<logged_in, loginRest>>

\* The click on "Start now", the delay and goto(LOGIN_URL).
LoginStart ==
    pc = "lg_start" /\ \E ok \in BOOLEAN : LoginStep("start", ok, "lg_challenge_2")

\* The honeypot scan and the typing of the two credentials.
LoginType ==
    pc = "lg_type" /\ \E ok \in BOOLEAN : LoginStep("type", ok, "lg_puzzle")

\* The query for '[data-sitekey]' and, with a puzzle on the page,
\* solve_recaptcha and inject_recaptcha_solution.
LoginPuzzle ==
    /\ pc = "lg_puzzle"
    /\ \E present \in BOOLEAN, solved \in BOOLEAN, injected \in BOOLEAN :
          LET token == solve_recaptcha(solved) IN
          /\ ~ present => solved /\ injected
          /\ ~ solved => ~ injected
          /\ lg' = IF ~ present THEN lg
                   ELSE IF token.kind = "raise" THEN [lg EXCEPT !.cause = "solver"]
                   ELSE IF ~ injected
                   THEN [lg EXCEPT !.steps = Append(@, "solve"), !.cause = "inject"]
                   ELSE [lg EXCEPT !.steps = @ \o <<"solve", "inject">>]
          /\ pc' = IF present /\ (token.kind = "raise" \/ ~ injected)
                   THEN "lg_handler" ELSE "lg_submit"
          /\ ev' = [op |-> "login", step |-> "puzzle", present |-> present,
                    raised |-> present /\ (token.kind = "raise" \/ ~ injected)]
    /\ UNCHANGED <<logged_in, loginRest>>

\* The delay and the click on "#booking-login".
LoginClick ==
    pc = "lg_submit" /\ \E ok \in BOOLEAN : LoginStep("submit", ok, "lg_wait")

\* The wait for "#find-test-centres, .error-summary"; the inner handler
\* returns False.
LoginWait ==
    /\ pc = "lg_wait"
    /\ \E found \in BOOLEAN :
          /\ lg' = IF found THEN [lg EXCEPT !.steps = Append(@, "wait")]
                   ELSE [lg EXCEPT !.cause = "wait", !.ret = "False"]
          /\ pc' = IF found THEN "lg_query" ELSE "lg_done"
          /\ ev' = [op |-> "login", step |-> "wait", raised |-> FALSE]
    /\ UNCHANGED <<logged_in, loginRest>>

\* The query for ".error-summary": none, and self.logged_in = True; one, and
\* its text is logged; an exception, and the inner handler returns False.
LoginCheck ==
    /\ pc = "lg_query"
    /\ \E outcome \in {"none", "error_surface", "raise"} :
          /\ lg' = IF outcome = "none"
                   THEN [lg EXCEPT !.steps = Append(@, "query"), !.ret = "True"]
                   ELSE [lg EXCEPT !.cause = IF outcome = "raise" THEN "query"
                                             ELSE "error_surface",
                                   !.ret = "False"]
          /\ logged_in' = IF outcome = "none" THEN TRUE ELSE logged_in
          /\ ev' = [op |-> "login", step |-> "query", raised |-> FALSE]
    /\ pc' = "lg_done"
    /\ UNCHANGED loginRest

\* The outer handler: the screenshot, then "return False". An exception of
\* the screenshot leaves login.
LoginHandler ==
    /\ pc = "lg_handler"
    /\ \E shot \in {"ok", "timeout", "error"} :
          /\ lg' = [lg EXCEPT !.ret = IF shot = "ok" THEN "False" ELSE "raised"]
          /\ ev' = [op |-> "login", step |-> "handler", raised |-> shot # "ok"]
    /\ pc' = "lg_done"
    /\ UNCHANGED <<logged_in, loginRest>>

NextLogin ==
    \/ LoginEntry
    \/ LoginGoto
    \/ LoginChallenge
    \/ LoginStart
    \/ LoginType
    \/ LoginPuzzle
    \/ LoginClick
    \/ LoginWait
    \/ LoginCheck
    \/ LoginHandler

SpecLogin == InitLogin /\ [][NextLogin]_vars

(***************************************************************************)
(* Harness of the fingerprint: generate() and the options of new_context   *)
(***************************************************************************)
CHROME_VERSIONS ==
    {"112.0.5615.49", "112.0.5615.121", "112.0.5615.138", "113.0.5672.63",
     "113.0.5672.92", "113.0.5672.127", "114.0.5735.90", "114.0.5735.106",
     "114.0.5735.133", "115.0.5790.102", "115.0.5790.171"}

\* The three templates, named by the platform they state.
USER_AGENTS == {"Windows NT 10.0", "Macintosh", "X11; Linux x86_64"}

VIEWPORT_SIZES ==
    { [width |-> 1366, height |-> 768], [width |-> 1440, height |-> 900],
      [width |-> 1536, height |-> 864], [width |-> 1600, height |-> 900],
      [width |-> 1920, height |-> 1080], [width |-> 2048, height |-> 1152],
      [width |-> 2560, height |-> 1440] }

\* FingerPrintGenerator.generate, its six random choices as parameters: the
\* version is put into the template, the time zone is the literal.
generate(chrome_version, user_agent_template, viewport, scale, touch, locale) ==
    [userAgent         |-> [template |-> user_agent_template, version |-> chrome_version],
     viewport          |-> viewport,
     deviceScaleFactor |-> scale,
     hasTouch          |-> touch,
     locale            |-> locale,
     timezoneId        |-> "Europe/London"]

\* The keyword arguments setup_browser passes to browser.new_context.
new_context_options(fp) ==
    [user_agent          |-> fp.userAgent,
     viewport            |-> fp.viewport,
     device_scale_factor |-> fp.deviceScaleFactor,
     has_touch           |-> fp.hasTouch,
     locale              |-> fp.locale,
     timezone_id         |-> fp.timezoneId,
     permissions         |-> <<"geolocation">>]

InitFingerprint ==
    /\ current_index = 0 /\ last_rotation_time = 0 /\ now = 0 /\ rot_trace = <<0>>
    /\ ev = [op |-> "init"]
    /\ scan_criteria = CriteriaJune /\ scan_listing = <<>> /\ scan_result = NotScanned
    /\ InitRest

fingerprintRest ==
    <<rotVars, now, scanVars, honeyVars, lg, sessVars, authVars, pc, hpc, hpc2,
      held, cycVars, histVars>>

\* setup_browser: "fingerprint = FingerPrintGenerator.generate()".
FingerprintGenerate ==
    /\ fingerprint = Unset
    /\ \E chrome_version \in CHROME_VERSIONS, user_agent_template \in USER_AGENTS,
          viewport \in VIEWPORT_SIZES, scale \in {"1", "1.25", "1.5", "2"},
          touch \in BOOLEAN, locale \in {"en-GB", "en-US"} :
          fingerprint' = generate(chrome_version, user_agent_template, viewport,
                                  scale, touch, locale)
    /\ UNCHANGED context_options
    /\ ev' = [op |-> "generate"]
    /\ UNCHANGED fingerprintRest

\* setup_browser: "self.context = await self.browser.new_context(...)".
FingerprintNewContext ==
    /\ fingerprint # Unset /\ context_options = Unset
    /\ context_options' = new_context_options(fingerprint)
    /\ ev' = [op |-> "new_context"]
    /\ UNCHANGED <<fingerprint, fingerprintRest>>

NextFingerprint ==
    \/ FingerprintGenerate
    \/ FingerprintNewContext

SpecFingerprint == InitFingerprint /\ [][NextFingerprint]_vars

(***************************************************************************)
(* Claims                                                                  *)
(***************************************************************************)
Stopping == {"td_page", "td_context", "td_browser", "exit"}

\* The element of a non-empty list with the least sort key, the first listed
\* among those with that key.
MinFirst(slots) ==
    slots[CHOOSE i \in 1..Len(slots) :
             /\ \A j \in 1..Len(slots) : ~ KeyLess(slots[j], slots[i])
             /\ \A j \in 1..(i - 1) : KeyLess(slots[i], slots[j])]

\* What a scan of the test centre finds in the site's listing of the cycle.
FoundAt(index) ==
    check_available_slots(test_centers[index], Listing(site, test_centers[index]),
                          CriteriaJune).slots

RECURSIVE FoundUpTo(_)
FoundUpTo(index) == IF index = 0 THEN <<>> ELSE FoundUpTo(index - 1) \o FoundAt(index)

HasKeyword(text) ==
    text # None /\ (Contains(Lower(text), W_confirmed) \/ Contains(Lower(text), W_booked))

\* C3: book_slot returns True only if the confirmation surface appeared and its
\* text holds "confirmed" or "booked" in any case; a failed confirm sequence, a
\* missing surface or a text without a keyword never gives Confirmed or True.
C3_TrueOnlyOnKeyword ==
    ev.op = "book_slot" =>
        /\ ev.ret => ev.stage = "confirm" /\ ev.surface /\ HasKeyword(ev.text)
        /\ ev.outcome = "Confirmed" =>
              ev.stage = "confirm" /\ ev.surface /\ HasKeyword(ev.text)

\* book_slot returned True on a text that matches only case-insensitively.
C3_Witness ==
    ev.op = "book_slot" /\ ev.ret /\ ev.text = X_BOOKED

\* C4 as stated: once a claim is Confirmed the run is over, and no second claim
\* is ever Confirmed.
C4_ConfirmedEndsRun ==
    confirmed >= 1 => pc \in Stopping /\ confirmed = 1

\* C5: notify_success is called once for each Confirmed claim, with the test
\* centre, date and time of the slot claimed, and for no other claim; a claim
\* that is not Confirmed returns False.
C5_NotifyExactlyConfirmed ==
    /\ notified = confirmed
    /\ ev.op = "book_slot" /\ ev.stage = "clicks" => ~ ev.ret
    /\ ev.op = "book_slot" /\ ev.stage = "confirm" =>
          IF ev.surface /\ HasKeyword(ev.text)
          THEN ev.notify = << [test_center |-> ev.slot.test_center,
                               test_date |-> ev.slot.date,
                               test_time |-> ev.slot.time] >>
          ELSE ev.notify = <<>> /\ ~ ev.ret

\* A Confirmed claim at B, notified.
C5_Witness ==
    /\ ev.op = "book_slot" /\ ev.stage = "confirm" /\ ev.outcome = "Confirmed"
    /\ notified = 1
    /\ ev.notify = << [test_center |-> "B", test_date |-> D_0603, test_time |-> T_0900] >>

\* C6: when the email or the SMS send fails for a Confirmed claim, book_slot
\* returns what it returns without that failure (True, unless the screenshot
\* that follows raises), and on True the run leaves its loop.
C6_DeliveryFailureKeepsOutcome ==
    ev.op = "book_slot" /\ ev.stage = "confirm" /\ (ev.email_fails \/ ev.sms_fails) =>
        /\ ev.outcome = "Confirmed"
        /\ ev.ret = ~ ev.shot_raises
        /\ ev.ret => pc = "td_page"

\* Both sends failed, book_slot returned True and the run is stopping.
C6_Witness ==
    /\ ev.op = "book_slot" /\ ev.stage = "confirm"
    /\ ev.email_fails /\ ev.sms_fails /\ ev.ret /\ pc = "td_page"

\* The (date, time) pairs of the listing: of the entries that are not disabled
\* and whose times the page shows when the date is clicked.
ListedPairs ==
    UNION { { <<scan_listing[i].date, scan_listing[i].times[k]>> :
                k \in 1..Len(scan_listing[i].times) } :
            i \in { i \in 1..Len(scan_listing) :
                      /\ ~ scan_listing[i].disabled
                      /\ scan_listing[i].click_ok /\ scan_listing[i].panel } }

PassesFilters(date_str, time_str) ==
    /\ date_str # None /\ StrptimeOk(date_str)
    /\ Ordinal(Strptime(date_str)) >= Ordinal(scan_criteria.start_date)
    /\ Ordinal(Strptime(date_str)) <= Ordinal(scan_criteria.end_date)
    /\ Weekday(Strptime(date_str)) \in scan_criteria.preferred_days
    /\ time_str # None /\ TimeOk(time_str)
    /\ TimeValue(time_str) >= TimeValue(scan_criteria.earliest)
    /\ TimeValue(time_str) <= TimeValue(scan_criteria.latest)

ScanSound ==
    \A k \in 1..Len(scan_result.slots) :
        /\ PassesFilters(scan_result.slots[k].date, scan_result.slots[k].time)
        /\ <<scan_result.slots[k].date, scan_result.slots[k].time>> \in ListedPairs

ScanComplete ==
    \A p \in ListedPairs :
        PassesFilters(p[1], p[2]) =>
            \E k \in 1..Len(scan_result.slots) :
                scan_result.slots[k].date = p[1] /\ scan_result.slots[k].time = p[2]

C8_RotateIfNeeded ==
    ev.op = "rotate_if_needed" =>
        IF ev.at - ev.last < proxies[ev.index + 1].rotation_interval
        THEN /\ ev.ret = FALSE
             /\ current_index = ev.index
             /\ last_rotation_time = ev.last
        ELSE /\ ev.ret = TRUE
             /\ current_index = (ev.index + 1) % Len(proxies)
             /\ last_rotation_time = ev.at

\* A timer rotation that wrapped from the last endpoint to the first.
C8_Witness ==
    /\ ev.op = "rotate_if_needed" /\ ev.ret
    /\ ev.index = Len(proxies) - 1 /\ current_index = 0

\* C9: rotations follow the cyclic order: each goes to the next index modulo
\* the pool size, n of them in a row visit every endpoint once and end where
\* they began, and rotate always advances and sets the clock to now.
C9_CyclicOrder ==
    LET n == Len(proxies) IN
    /\ rot_trace[Len(rot_trace)] = current_index
    /\ \A i \in 1..(Len(rot_trace) - 1) : rot_trace[i + 1] = (rot_trace[i] + 1) % n
    /\ Len(rot_trace) = n + 1 =>
          /\ rot_trace[n + 1] = rot_trace[1]
          /\ { rot_trace[i] : i \in 2..(n + 1) } = 0..(n - 1)
    /\ ev.op = "rotate" =>
          /\ current_index = (ev.index + 1) % n
          /\ last_rotation_time = ev.at

\* n rotations in a row, the last by the timer and, so early, not all of them.
C9_Witness ==
    /\ Len(rot_trace) = Len(proxies) + 1
    /\ ev.op = "rotate_if_needed" /\ ev.ret /\ ev.at <= 2

\* C10: a step of handle_response for a 403 or 429 in which rotate_if_needed
\* returned False starts no restart and leaves the session handles, the login
\* flag, the proxy index and the rotation clock as they were.
C10_NoRotationNoRestart ==
    [][ (ev'.op = "handle_response" /\ ~ ev'.ret) =>
            /\ UNCHANGED <<browser, context, page, logged_in, live, nsess, launched>>
            /\ UNCHANGED <<current_index, last_rotation_time>>
            /\ hpc' = hpc ]_vars

\* A 429 with no rotation due, while logged in.
C10_Witness ==
    /\ ev.op = "handle_response" /\ ev.status = 429 /\ ~ ev.ret
    /\ logged_in /\ page # 0 /\ hpc = "idle"
    /\ now - last_rotation_time < get_current_proxy.rotation_interval

\* C11 as stated: once a 403 or 429 with the interval elapsed has rotated the
\* proxy, the restart it starts is over before a scan of a test centre begins:
\* no scan begins while restart_session is between its first and its last step.
C11_RestartBeforeNextScan ==
    ev.op = "check_available_slots" => hpc = "idle"

\* C12 as stated: no input that the honeypot scan flags is typed into.
C12_FlaggedNeverWritten ==
    written \cap flagged = {}

\* C13: a scan that returns no slot is followed by no call of book_slot: the
\* loop goes on to the next test centre or the cycle ends with False and run
\* goes to its wait; book_slot is entered only from a scan that returned a
\* slot, so a cycle whose scans all return none makes no attempt; and the wait
\* is left only for the next cycle or by an interrupt.
C13_NoSlotsNoAttempt ==
    [][ /\ (pc = "scan" /\ pc' \notin {"scan", "td_page"} /\ ev'.slots = <<>>) =>
              booked' = booked /\ pc' \in {"centre", "sleep"}
        /\ (pc' = "book" /\ pc # "book") =>
              pc = "scan" /\ ev'.op = "check_available_slots" /\ ev'.slots # <<>>
        /\ Len(booked') > Len(booked) => pc \in {"book", "book_next", "confirm"}
        /\ (pc = "sleep" /\ pc' # "sleep") => pc' \in {"cycle", "td_page"} ]_vars

\* A cycle that ended after the last test centre returned no slot, with no
\* attempt made in it.
C13_Witness ==
    /\ pc = "sleep" /\ booked = <<>>
    /\ ev.op = "check_available_slots" /\ ev.centre = "B"
    /\ ev.slots = <<>> /\ ~ ev.err

\* C14 as stated: when a cycle has ended by an exception that escaped its
\* steps (here: out of check_available_slots, whose handler's screenshot
\* raised) and run is at its wait, the session has been restarted: the login
\* flag is False, self.page is not the page the scan ran on any more, and with
\* more than one endpoint the proxy is not the one of the scan.
C14_RestartAfterFailedCycle ==
    (pc = "sleep" /\ ev.op = "check_available_slots" /\ ev.raised) =>
        /\ ~ logged_in
        /\ page # ev.page
        /\ Len(proxies) > 1 => current_index # ev.index

\* C15 as stated: no error of a step of run ends it: after a failed browser
\* setup, login, scan or claim, run is not in its finally block nor over.
C15_NoErrorEndsRun ==
    LET failed ==
          \/ (ev.op = "setup_browser" /\ ev.outcome # "ok")
          \/ (ev.op = "login" /\ ev.outcome \in {"raise", "timeout", "error_surface"})
          \/ (ev.op = "check_available_slots" /\ ev.err)
          \/ (ev.op = "book_slot" /\ ev.outcome = "Failed")
    IN  failed => pc \notin Stopping

\* restart_session closes the page before the context and the context before
\* the browser, and has closed all three when it starts to provision.
RestartOrdered ==
    /\ hpc = "rs_context" => ~ Open("page", page)
    /\ hpc = "rs_browser" => ~ Open("page", page) /\ ~ Open("context", context)
    /\ hpc = "sb_launch" => \A h \in live : h[1] = "driver"

RestartReturned ==
    ev.op = "restart_session" /\ ev.step = "init_script" /\ ~ ev.raised

\* C16 as stated: restart_session tears down page, context, browser in this
\* order and before it provisions, and the login flag is False when it returns.
C16_OrderedAndLoggedOut ==
    RestartOrdered /\ (RestartReturned => ~ logged_in)

\* C17 as stated: when closing the page fails, the close of the context is
\* the next step, and when closing the context fails, the close of the
\* browser is, in the finally block of run and in restart_session alike.
C17_TeardownGoesOn ==
    /\ (ev.op = "teardown" /\ ev.raised /\ ev.step = "page") => pc = "td_context"
    /\ (ev.op = "teardown" /\ ev.raised /\ ev.step = "context") => pc = "td_browser"
    /\ (ev.op = "restart_session" /\ ev.raised /\ ev.step = "page") => hpc = "rs_context"
    /\ (ev.op = "restart_session" /\ ev.raised /\ ev.step = "context") => hpc = "rs_browser"

\* C18 as stated: when run has ended, every resource the run acquired has
\* been released: pages, contexts, browsers and driver instances.
C18_AllReleasedAtExit ==
    pc = "exit" => live = {}

\* C19 as stated: every click of a claim attempt is made on the page of the
\* session in which the claimed slot was found.
C19_ClaimOnDiscoveringSession ==
    (ev.op = "book_slot" /\ ev.stage = "clicks") => ev.page = ev.found_on

\* C20 as stated: logged_in is True only if the last successful login was
\* made on the page now held in self.page, and a login whose query for the
\* error surface was issued on a page that a restart has since replaced ends
\* with logged_in False.
C20_LoggedInOnlyOnCurrentPage ==
    /\ logged_in => login_page = page /\ login_page \in 1..nsess
    /\ (ev.op = "login" /\ ev.stage = "query" /\ ev.page # page) => ~ logged_in

\* C21 as stated: at most one browser is live and self.browser refers to it,
\* and the two tasks of the listener are never both at work.
C21_OneSessionOneRestart ==
    /\ Cardinality({h \in live : h[1] = "browser"}) <= 1
    /\ \A h \in live : h[1] = "browser" => h[2] = browser
    /\ ~ (hpc # "idle" /\ hpc2 # "idle")

\* C22 as stated: a scan that interacts with the page does so on a session
\* whose browser was launched with the rotator's current endpoint.
C22_ScanOnCurrentProxy ==
    (ev.op = "check_available_slots" /\ ~ ev.err) => launched[ev.page] = ev.index

Chrono(slot) == <<Ordinal(Strptime(slot.date)), TimeValue(slot.time)>>

ChronoLeq(x, y) ==
    Chrono(x)[1] < Chrono(y)[1]
    \/ (Chrono(x)[1] = Chrono(y)[1] /\ Chrono(x)[2] <= Chrono(y)[2])

\* C24 as stated: the slot chosen among the slots of one scan is the earliest
\* by calendar date and, on equal dates, by minutes since midnight.
C24_ChronologicallyEarliest ==
    pc \in {"book", "book_next", "confirm"} =>
        \A i \in 1..Len(available_slots) : ChronoLeq(earliest_slot, available_slots[i])

Done(step) == \E i \in 1..Len(lg.steps) : lg.steps[i] = step

\* C25 as stated: login sets logged_in only after the wait for the result
\* succeeded and the query found no error surface; when a step of login
\* failed, login has returned False and logged_in is False.
C25_LoginOutcomes ==
    /\ logged_in => lg.ret = "True" /\ Done("wait") /\ Done("query")
    /\ (pc = "lg_done" /\ lg.cause # "none") => lg.ret = "False" /\ ~ logged_in

\* C26 as stated: handle_cf_challenge returns False when no marker shows in
\* the probe window, returns True when a marker showed and cleared, and
\* raises when a marker showed and the wait for it to clear timed out,
\* whatever the screenshot does.
C26_ChallengeOutcomes ==
    ev.op = "handle_cf_challenge" =>
        /\ ev.probe = "timeout" => ev.result = Return(FALSE)
        /\ (ev.probe = "marker" /\ ev.resolve = "passed") => ev.result = Return(TRUE)
        /\ (ev.probe = "marker" /\ ev.resolve = "timeout") => ev.result.kind = "raise"

\* C27 as stated: when the solver fails on a puzzle at login, login ends
\* with no token injected and no submit click, returns False, and logged_in
\* is False.
C27_SolverFailureAbortsLogin ==
    (pc = "lg_done" /\ lg.cause = "solver") =>
        /\ ~ Done("inject") /\ ~ Done("submit")
        /\ lg.ret = "False" /\ ~ logged_in

\* C28 as stated: when the test centre is not among the search results, or a
\* surface of its scan is missing, check_available_slots returns an empty
\* list and does not raise, and the cycle goes on to the next test centre
\* (or, after the last one, ends with all of them scanned).
C28_MissingMeansEmpty ==
    (ev.op = "check_available_slots" /\ ev.outcome \in {"not_found", "raise"}) =>
        /\ ev.slots = <<>> /\ ~ ev.raised
        /\ \/ pc = "centre" /\ ci = Len(scanned) + 1
           \/ pc = "sleep" /\ scanned = test_centers

\* The conditions under which the scan may click a date element.
MayClick(e) ==
    /\ ~ e.disabled
    /\ e.date # None /\ StrptimeOk(e.date)
    /\ Ordinal(Strptime(e.date)) >= Ordinal(scan_criteria.start_date)
    /\ Ordinal(Strptime(e.date)) <= Ordinal(scan_criteria.end_date)
    /\ Weekday(Strptime(e.date)) \in scan_criteria.preferred_days

\* C29 as stated: every date element the scan clicks is not disabled and has
\* a parseable date inside the date range, on an allowed weekday.
C29_OnlyEligibleClicked ==
    scan_result.done =>
        \A k \in 1..Len(scan_result.clicked) : MayClick(scan_listing[scan_result.clicked[k]])

\* C30: between two monitoring cycles run waits once, for a whole number of
\* seconds from check_interval[0] to check_interval[1], both included: a cycle
\* other than the first starts only from the wait, the wait is the only step
\* that counts a cycle, and a cycle that ended (with slots, without, or with
\* an error that was caught) goes to the wait or stops, never to a new cycle.
InCycle == {"login", "login_wait", "login_query", "centre", "scan", "book",
            "book_next", "confirm"}

C30_WaitBetweenCycles ==
    [][ /\ (pc' = "cycle" /\ pc \notin {"cycle", "setup"}) =>
              /\ pc = "sleep"
              /\ ev'.op = "sleep"
              /\ ev'.wait_time \in Nat
              /\ ev'.wait_time >= check_interval[1]
              /\ ev'.wait_time <= check_interval[2]
        /\ cycle' # cycle => (cycle' = cycle + 1 /\ pc = "sleep" /\ pc' = "cycle")
        /\ (pc \in InCycle \cup {"cycle"} /\ pc' \notin InCycle \cup {"cycle"}) =>
              pc' \in {"sleep"} \cup Stopping
      ]_vars

\* The second cycle has started from the wait, after a first cycle whose
\* login failed.
C30_Witness ==
    /\ pc = "cycle" /\ cycle = 2
    /\ ev.op = "sleep" /\ ev.wait_time = check_interval[2]
    /\ ~ logged_in

\* C33: login called while logged_in is True returns True at once: no
\* navigation, challenge handling, typing or click is made (the steps and the
\* challenge results on record stay as they were), and the session handles,
\* the set of open handles, logged_in and the page of the login are unchanged.
C33_AlreadyLoggedInReturnsTrue ==
    [][ (pc \in {"lg_entry", "lg_done"} /\ logged_in) =>
            /\ pc' = "lg_done"
            /\ lg'.ret = "True"
            /\ lg'.steps = lg.steps /\ lg'.cf = lg.cf
            /\ logged_in'
            /\ UNCHANGED <<sessVars, login_page>>
      ]_vars

\* A call of login made with logged_in set has returned.
C33_Witness ==
    /\ pc = "lg_done" /\ logged_in
    /\ ev.op = "login" /\ ev.step = "entry" /\ ev.already
    /\ lg.ret = "True"

\* C32 as stated: every context setup_browser creates has its time zone
\* fixed to Europe/London and its locale fixed to en-GB, whatever the
\* fingerprint generator chose.
C32_RegionFixed ==
    context_options # Unset =>
        /\ context_options.timezone_id = "Europe/London"
        /\ context_options.locale = "en-GB"

\* The cycle's site offers, at some configured test centre, a slot that
\* matches the criteria.
SiteOffers(s) ==
    \E i \in 1..Len(test_centers) : SiteScan[s][test_centers[i]].slots # <<>>

\* What the last step did is in favour of a booking: the setup, every step of
\* login, every scan and every click of a claim succeeded, the site of the
\* cycle offers a matching slot, the claim showed a matching confirmation
\* surface, and nobody interrupted the run.
Favourable ==
    /\ ev.op = "setup_browser" => ev.outcome = "ok"
    /\ ev.op = "login" => ev.outcome \in {"ok", "found", "ready"}
    /\ ev.op = "run_monitoring_cycle" => SiteOffers(site)
    /\ ev.op = "check_available_slots" => ev.outcome = "ok" /\ ~ ev.raised
    /\ ev.op = "book_slot" =>
          IF ev.stage = "clicks" THEN ev.outcome = "Pending" ELSE ev.outcome = "Confirmed"
    /\ ev.op # "interrupt"

ConfirmedAndTerminated == confirmed > 0 /\ pc = "exit"

\* C31 as stated, under the fairness of SpecLive, and with the assumptions
\* holding from the start: if every login attempt succeeds, every cycle's
\* site offers a matching slot and every claim shows a matching confirmation
\* surface, the run eventually reaches Confirmed and terminates.
C31_EventuallyConfirmedAndTerminated ==
    []Favourable => <>ConfirmedAndTerminated

====
